---------------------------- MODULE Spec2Model ----------------------------
(***************************************************************************)
(* Model of the conjoint-study helpers                                     *)
(* (src/plugins/edsl-research/skills/conjoint-study/helpers.py):           *)
(* the generate-design command with its randomized design search, the      *)
(* balance scorer, the utility estimator and the importance calculator.    *)
(*                                                                         *)
(* Numbers that are floats in the source are exact rationals <<num, den>>  *)
(* here (den > 0; <<1, 0>> is float("inf")).  The module `random` is a     *)
(* deterministic generator: a state, set by random.seed and advanced by    *)
(* every draw; before the first seeding the state is arbitrary.            *)
(***************************************************************************)
EXTENDS Integers, Sequences, FiniteSets, TLC

VARIABLES
    pc,           \* position in the running command
    spec,         \* the design specification read from spec_file
    rng,          \* state of the module-global random generator
    profiles,     \* generate_design: profiles
    min_diff,     \* generate_design: min_diff after the adjustment
    v,            \* generate_design: version index of the for loop
    iter,         \* _generate_one_version: iterations done
    choice_sets,  \* _generate_one_version: choice_sets of this attempt
    available,    \* _generate_one_version: pool of first profiles
    task,         \* _generate_one_version: task under construction
    candidates,   \* _generate_one_version: shuffled candidates
    ci,           \* index of the next candidate of the greedy loop
    best_sets,    \* _generate_one_version: best_sets
    best_score,   \* _generate_one_version: best_score
    all_versions, \* generate_design: all_versions
    exit_code,    \* process exit status (-1 while running)
    output,       \* content of the choice-sets output file, None if not written
    run,          \* which run of the command: 1, 2 (the same specification
                  \* again) or 3 (again, with a later base seed)
    first_run,    \* exit status and output file of run 1, None during run 1
    attempts,     \* history: choice sets and score of the attempts of this search
    records,      \* analyze: the choice records parsed from the results table
    utilities,    \* analyze: utilities
    importance,   \* analyze: importance
    util_output,  \* analyze: content of utilities.json, None if not written
    segment_results, \* analyze: segment_results
    files,        \* analyze: the directory and files created so far
    fn_args,      \* arguments of a function applied on its own
    fn_result     \* its result, None before the call

designVars == <<rng, profiles, min_diff, v, iter, choice_sets, available, task,
                candidates, ci, best_sets, best_score, all_versions, output,
                run, first_run, attempts>>

analysisVars == <<records, utilities, importance, util_output, segment_results,
                  files>>

callVars == <<fn_args, fn_result>>

vars == <<pc, spec, exit_code, designVars, analysisVars, callVars>>

\* Python's None, and a value that is not None
None == <<>>
Some(x) == <<x>>
Get(o) == o[1]

\* ------------------------------------------------------------------ bounds
MaxProfiles == 8
MaxTasks == 3
MaxPerTask == 3
MaxVersions == 2
MaxSeed == 1
MaxIterations == 2

\* ------------------------------------------------------------- arithmetic
RECURSIVE Gcd(_, _)
Gcd(a, b) == IF b = 0 THEN a ELSE Gcd(b, a % b)

Abs(x) == IF x < 0 THEN -x ELSE x

\* a float as an exact rational in lowest terms
Rat(n, d) ==
    LET g == Gcd(Abs(n), Abs(d))
        s == IF d < 0 THEN -1 ELSE 1
    IN IF g = 0 THEN <<0, 1>> ELSE <<s * (n \div g), s * (d \div g)>>

RAdd(a, b) == Rat(a[1] * b[2] + b[1] * a[2], a[2] * b[2])
RSub(a, b) == Rat(a[1] * b[2] - b[1] * a[2], a[2] * b[2])
RMul(a, b) == Rat(a[1] * b[1], a[2] * b[2])
RDiv(a, b) == Rat(a[1] * b[2], a[2] * b[1])
RLess(a, b) == a[1] * b[2] < b[1] * a[2]
Inf == <<1, 0>>

\* round(x, 4): to the nearest multiple of 1/10000, ties to even
Round4(x) ==
    LET n == x[1] * 10000
        q == n \div x[2]
        r2 == 2 * (n % x[2])
        up == r2 > x[2] \/ (r2 = x[2] /\ q % 2 = 1)
    IN Rat(IF up THEN q + 1 ELSE q, 10000)

\* ------------------------------------------------------------ random
\* faulty variant: the seeding does not reach the generator that is drawn from
RandomSeedStale(a) == rng

\* random.seed(a): the state is a function of the seed alone
RandomSeed(a) == (a * 389 + 101) % 1024

\* one step of the generator
RandomStep(r) == (r * 37 + 11) % 1024

\* random.randint(0, n - 1), and the draws of random.shuffle: a value below n
RandBelow(r, n) ==
    [val |-> (RandomStep(r) * n) \div 1024, rng |-> RandomStep(r)]

Swap(x, i, j) == [x EXCEPT ![i] = x[j], ![j] = x[i]]

\* random.shuffle(x): for i from the last index down to the second,
\* exchange x[i] with x[j], j drawn among the first i positions
RECURSIVE ShuffleFrom(_, _, _)
ShuffleFrom(x, i, r) ==
    IF i < 2 THEN [seq |-> x, rng |-> r]
    ELSE LET d == RandBelow(r, i)
         IN ShuffleFrom(Swap(x, i, d.val + 1), i - 1, d.rng)

Shuffle(x, r) == ShuffleFrom(x, Len(x), r)

\* ------------------------------------------------------------ sequences
Range(s) == {s[i] : i \in 1..Len(s)}

RemoveAt(s, i) == SubSeq(s, 1, i - 1) \o SubSeq(s, i + 1, Len(s))

\* ------------------------------------------------------------ profiles
AttrNames == <<"price", "brand", "size">>
LevelPool == <<"a", "b", "c">>

Names(attributes) == [i \in 1..Len(attributes) |-> attributes[i].name]
LevelLists(attributes) == [i \in 1..Len(attributes) |-> attributes[i].levels]

\* faulty variant: the first attribute varies fastest
RECURSIVE ProductFromFirstFastest(_, _, _)
ProductFromFirstFastest(level_lists, i, result) ==
    IF i > Len(level_lists) THEN result
    ELSE LET pool == level_lists[i]
             n == Len(result)
         IN ProductFromFirstFastest(level_lists, i + 1,
                [k \in 1..(n * Len(pool)) |->
                    Append(result[((k - 1) % n) + 1], pool[((k - 1) \div n) + 1])])

\* itertools.product(*level_lists): result = [[]]; for every pool,
\* result = [x + [y] for x in result for y in pool]
RECURSIVE ProductFrom(_, _, _)
ProductFrom(level_lists, i, result) ==
    IF i > Len(level_lists) THEN result
    ELSE LET pool == level_lists[i]
             n == Len(pool)
         IN ProductFrom(level_lists, i + 1,
                [k \in 1..(Len(result) * n) |->
                    Append(result[((k - 1) \div n) + 1], pool[((k - 1) % n) + 1])])

\* dict(zip(names, combo))
DictZip(names, combo) ==
    [nm \in Range(names) |->
        combo[CHOOSE i \in 1..Len(names) : names[i] = nm]]

AllProfiles(attributes) ==
    LET combos == ProductFrom(LevelLists(attributes), 1, << <<>> >>)
    IN [k \in 1..Len(combos) |-> DictZip(Names(attributes), combos[k])]

ProfileDiffCount(p1, p2) == Cardinality({k \in DOMAIN p1 : p1[k] # p2[k]})



\* ------------------------------------------------------------ balance score
\* counts[level] after the two loops over choice_sets and their profiles
LevelCount(sets, attr_name, level) ==
    Cardinality({ij \in UNION {{<<i, j>> : j \in 1..Len(sets[i])} : i \in 1..Len(sets)} :
                    sets[ij[1]][ij[2]][attr_name] = level})

\* total after the two loops
SlotCount(sets) ==
    Cardinality(UNION {{<<i, j>> : j \in 1..Len(sets[i])} : i \in 1..Len(sets)})

\* faulty variant: the deviation is not squared
BalanceTermSigned(obs, expected) ==
    IF RLess(<<0, 1>>, expected)
    THEN RDiv(RSub(<<obs, 1>>, expected), expected)
    ELSE <<0, 1>>

\* (obs - expected) ** 2 / expected if expected > 0 else 0
BalanceTerm(obs, expected) ==
    IF RLess(<<0, 1>>, expected)
    THEN LET d == RSub(<<obs, 1>>, expected) IN RDiv(RMul(d, d), expected)
    ELSE <<0, 1>>

RECURSIVE LevelsScore(_, _, _, _, _)
LevelsScore(sets, attr_name, levels, expected, i) ==
    IF i > Len(levels) THEN <<0, 1>>
    ELSE RAdd(BalanceTerm(LevelCount(sets, attr_name, levels[i]), expected),
              LevelsScore(sets, attr_name, levels, expected, i + 1))

RECURSIVE AttrsScore(_, _, _)
AttrsScore(sets, attributes, i) ==
    IF i > Len(attributes) THEN <<0, 1>>
    ELSE LET levels == attributes[i].levels
             expected == IF Len(levels) > 0 THEN Rat(SlotCount(sets), Len(levels))
                         ELSE <<1, 1>>
         IN RAdd(LevelsScore(sets, attributes[i].name, levels, expected, 1),
                 AttrsScore(sets, attributes, i + 1))

LevelBalanceScore(sets, attributes) == AttrsScore(sets, attributes, 1)

\* ------------------------------------------------------------ inputs
\* the first k levels of the pool, the last of them written twice if dup
LevelList(k, dup) ==
    SubSeq(LevelPool, 1, k) \o (IF dup THEN <<LevelPool[k]>> ELSE <<>>)

RECURSIVE CountSeqs(_)
CountSeqs(n) ==
    IF n = 0 THEN {<<>>}
    ELSE {Append(s, k) : s \in CountSeqs(n - 1), k \in 1..Len(LevelPool)}

RECURSIVE ProductLen(_)
ProductLen(lists) ==
    IF lists = <<>> THEN 1 ELSE Len(Head(lists)) * ProductLen(Tail(lists))

\* attribute specifications: at least one attribute, each of at least one
\* level, of at most MaxProfiles profiles in all; the level list of the first
\* attribute may repeat a level
AttributeSpecs ==
    {a \in {[i \in 1..Len(c) |-> [name |-> AttrNames[i],
                                  levels |-> LevelList(c[i], dup /\ i = 1)]] :
              c \in UNION {CountSeqs(n) : n \in 1..Len(AttrNames)}, dup \in BOOLEAN} :
        ProductLen(LevelLists(a)) <= MaxProfiles}

\* the states the generator may be in when the process starts
EntropyStates == {0, 777}

\* design specifications: a task shows at least one profile; a
\* min_attribute_diff above n_attrs + 1 is adjusted like n_attrs + 1 and a
\* profiles_per_task above the profile count + 1 is refused like the profile
\* count + 1
DesignSpecs ==
    {d \in [attributes : AttributeSpecs,
            tasks_per_version : 0..MaxTasks,
            profiles_per_task : 1..MaxPerTask,
            n_versions : 1..MaxVersions,
            min_attribute_diff : 0..(Len(AttrNames) + 1),
            seed : 0..MaxSeed] :
        /\ d.min_attribute_diff <= Len(d.attributes) + 1
        /\ d.profiles_per_task <= ProductLen(LevelLists(d.attributes)) + 1}

\* ------------------------------------------------------------ generate_design
\* the state of a command or call that is not the one running
DesignIdle ==
    /\ profiles = <<>>
    /\ min_diff = 0
    /\ v = 0
    /\ iter = 0
    /\ choice_sets = <<>>
    /\ available = <<>>
    /\ task = <<>>
    /\ candidates = <<>>
    /\ ci = 0
    /\ best_sets = None
    /\ best_score = Inf
    /\ all_versions = <<>>
    /\ output = None
    /\ run = 1
    /\ first_run = None
    /\ attempts = <<>>

AnalysisIdle ==
    /\ records = <<>>
    /\ utilities = None
    /\ importance = None
    /\ util_output = None
    /\ segment_results = None
    /\ files = {}

CallIdle ==
    /\ fn_args = None
    /\ fn_result = None

Init ==
    /\ pc = "generate_design"
    /\ spec \in DesignSpecs
    /\ rng \in EntropyStates
    /\ exit_code = -1
    /\ DesignIdle
    /\ AnalysisIdle
    /\ CallIdle

\* min_diff = max(1, n_attrs - 1) if min_diff > n_attrs
AdjustMinDiff(md, n_attrs) ==
    IF md > n_attrs THEN (IF n_attrs - 1 > 1 THEN n_attrs - 1 ELSE 1) ELSE md

\* faulty variant: the comparison is off by one
InsufficientOffByOne(profs, per_task) == Len(profs) <= per_task

\* len(profiles) < profiles_per_task
Insufficient(profs, per_task) == Len(profs) < per_task

\* lines 164-175: seed, enumerate, the insufficiency check, the adjustment
GenerateDesignStart ==
    /\ pc = "generate_design"
    /\ rng' = RandomSeed(spec.seed)
    /\ profiles' = AllProfiles(spec.attributes)
    /\ IF Insufficient(profiles', spec.profiles_per_task)
       THEN /\ pc' = "exit"
            /\ exit_code' = 1
            /\ UNCHANGED min_diff
       ELSE /\ pc' = "versions"
            /\ exit_code' = exit_code
            /\ min_diff' = AdjustMinDiff(spec.min_attribute_diff, Len(spec.attributes))
    /\ UNCHANGED <<spec, v, iter, choice_sets, available, task, candidates, ci,
                   best_sets, best_score, all_versions, output, run,
                   first_run, attempts>>
    /\ UNCHANGED <<analysisVars, callVars>>

\* faulty variant: every version is seeded with the base seed
VersionSeedBase(seed, ver) == seed

\* the seed of version index ver
VersionSeed(seed, ver) == seed + ver

\* lines 178-179 and 106-107: the next version is seeded and its search begins
VersionStart ==
    /\ pc = "versions"
    /\ v < spec.n_versions
    /\ rng' = RandomSeed(VersionSeed(spec.seed, v))
    /\ best_sets' = None
    /\ best_score' = Inf
    /\ iter' = 0
    /\ attempts' = <<>>
    /\ pc' = "attempts"
    /\ UNCHANGED <<spec, profiles, min_diff, v, choice_sets, available, task,
                   candidates, ci, all_versions, exit_code, output, run,
                   first_run>>
    /\ UNCHANGED <<analysisVars, callVars>>

\* lines 109-112: an attempt begins with a shuffled pool
AttemptStart ==
    /\ pc = "attempts"
    /\ iter < MaxIterations
    /\ LET sh == Shuffle(profiles, rng)
       IN /\ available' = sh.seq
          /\ rng' = sh.rng
    /\ choice_sets' = <<>>
    /\ pc' = "tasks"
    /\ UNCHANGED <<spec, profiles, min_diff, v, iter, task, candidates, ci,
                   best_sets, best_score, all_versions, exit_code, output, run,
                   first_run, attempts>>
    /\ UNCHANGED <<analysisVars, callVars>>

\* lines 116-118: the pool is refilled and reshuffled when it is empty
Refill(avail, profs, r) ==
    IF avail = <<>> THEN Shuffle(profs, r) ELSE [seq |-> avail, rng |-> r]

\* candidates = [p for p in profiles if p != first]
CandidatesOf(profs, first) == SelectSeq(profs, LAMBDA p : p # first)

\* lines 114-124: first profile popped from the pool, candidates shuffled
TaskStart ==
    /\ pc = "tasks"
    /\ Len(choice_sets) < spec.tasks_per_version
    /\ LET pool == Refill(available, profiles, rng)
           d == RandBelow(pool.rng, Len(pool.seq))
           first == pool.seq[d.val + 1]
           sh == Shuffle(CandidatesOf(profiles, first), d.rng)
       IN /\ available' = RemoveAt(pool.seq, d.val + 1)
          /\ task' = <<first>>
          /\ candidates' = sh.seq
          /\ rng' = sh.rng
    /\ ci' = 1
    /\ pc' = "greedy"
    /\ UNCHANGED <<spec, profiles, min_diff, v, iter, choice_sets, best_sets,
                   best_score, all_versions, exit_code, output, run,
                   first_run, attempts>>
    /\ UNCHANGED <<analysisVars, callVars>>

\* faulty variant: the candidate is checked against some member, not all
CompatibleAny(cand, tsk, md) ==
    \E i \in 1..Len(tsk) : ProfileDiffCount(cand, tsk[i]) >= md

\* faulty variant: the candidate is checked against the first profile only
CompatibleFirst(cand, tsk, md) == ProfileDiffCount(cand, tsk[1]) >= md

\* all(_profile_diff_count(cand, t) >= min_diff for t in task)
Compatible(cand, tsk, md) ==
    \A i \in 1..Len(tsk) : ProfileDiffCount(cand, tsk[i]) >= md

\* lines 125-130: one candidate of the greedy loop
GreedyStep ==
    /\ pc = "greedy"
    /\ ci <= Len(candidates)
    /\ Len(task) < spec.profiles_per_task
    /\ task' = IF Compatible(candidates[ci], task, min_diff)
               THEN Append(task, candidates[ci]) ELSE task
    /\ ci' = ci + 1
    /\ UNCHANGED <<pc, spec, rng, profiles, min_diff, v, iter, choice_sets,
                   available, candidates, best_sets, best_score, all_versions,
                   exit_code, output, run,
                   first_run, attempts>>
    /\ UNCHANGED <<analysisVars, callVars>>

\* lines 125-127: the greedy loop ends (candidates exhausted, or the break)
GreedyEnd ==
    /\ pc = "greedy"
    /\ (ci > Len(candidates) \/ Len(task) >= spec.profiles_per_task)
    /\ pc' = "relax"
    /\ UNCHANGED <<spec, rng, profiles, min_diff, v, iter, choice_sets, available,
                   task, candidates, ci, best_sets, best_score, all_versions,
                   exit_code, output, run,
                   first_run, attempts>>
    /\ UNCHANGED <<analysisVars, callVars>>

\* remaining = [p for p in profiles if p not in task]
RemainingOf(profs, tsk) == SelectSeq(profs, LAMBDA p : p \notin Range(tsk))

\* lines 136-139: candidates appended until the task is full
FillFrom(tsk, rem, per_task) ==
    LET n == IF per_task - Len(tsk) < Len(rem) THEN per_task - Len(tsk) ELSE Len(rem)
    IN tsk \o SubSeq(rem, 1, n)

\* lines 133-141: the task is short, the constraint is relaxed
RelaxFill ==
    /\ pc = "relax"
    /\ Len(task) < spec.profiles_per_task
    /\ LET sh == Shuffle(RemainingOf(profiles, task), rng)
       IN /\ task' = FillFrom(task, sh.seq, spec.profiles_per_task)
          /\ rng' = sh.rng
    /\ choice_sets' = Append(choice_sets, task')
    /\ pc' = "tasks"
    /\ UNCHANGED <<spec, profiles, min_diff, v, iter, available, candidates, ci,
                   best_sets, best_score, all_versions, exit_code, output, run,
                   first_run, attempts>>
    /\ UNCHANGED <<analysisVars, callVars>>

\* lines 133 and 141: the task is full after the greedy loop
TaskDone ==
    /\ pc = "relax"
    /\ Len(task) >= spec.profiles_per_task
    /\ choice_sets' = Append(choice_sets, task)
    /\ pc' = "tasks"
    /\ UNCHANGED <<spec, rng, profiles, min_diff, v, iter, available, task,
                   candidates, ci, best_sets, best_score, all_versions, exit_code,
                   output, run,
                   first_run, attempts>>
    /\ UNCHANGED <<analysisVars, callVars>>

\* faulty variant: an attempt that ties with the best replaces it
BetterOrEqual(score, best) == ~RLess(best, score)

\* score < best_score
Better(score, best) == RLess(score, best)

\* lines 143-146: the attempt is scored and kept if it is the best so far
AttemptEnd ==
    /\ pc = "tasks"
    /\ Len(choice_sets) >= spec.tasks_per_version
    /\ LET score == LevelBalanceScore(choice_sets, spec.attributes)
       IN IF Better(score, best_score)
          THEN best_score' = score /\ best_sets' = Some(choice_sets)
          ELSE UNCHANGED <<best_score, best_sets>>
    /\ attempts' = Append(attempts,
                      [choice_sets |-> choice_sets,
                       score |-> LevelBalanceScore(choice_sets, spec.attributes)])
    /\ iter' = iter + 1
    /\ pc' = "attempts"
    /\ UNCHANGED <<spec, rng, profiles, min_diff, v, choice_sets, available, task,
                   candidates, ci, all_versions, exit_code, output, run,
                   first_run>>
    /\ UNCHANGED <<analysisVars, callVars>>

\* for cs in choice_sets: random.shuffle(cs)
RECURSIVE ShuffleEach(_, _, _)
ShuffleEach(sets, i, r) ==
    IF i > Len(sets) THEN [seq |-> sets, rng |-> r]
    ELSE LET sh == Shuffle(sets[i], r)
         IN ShuffleEach([sets EXCEPT ![i] = sh.seq], i + 1, sh.rng)

\* lines 148 and 184-191: the search returns, the presentation order is
\* shuffled, the version is recorded
VersionEnd ==
    /\ pc = "attempts"
    /\ iter >= MaxIterations
    /\ LET sh == ShuffleEach(Get(best_sets), 1, rng)
       IN /\ all_versions' = Append(all_versions,
                [version |-> v + 1,
                 balance_score |-> Round4(best_score),
                 choice_sets |-> sh.seq])
          /\ rng' = sh.rng
    /\ v' = v + 1
    /\ pc' = "versions"
    /\ UNCHANGED <<spec, profiles, min_diff, iter, choice_sets, available, task,
                   candidates, ci, best_sets, best_score, exit_code, output, run,
                   first_run, attempts>>
    /\ UNCHANGED <<analysisVars, callVars>>

\* lines 193-205: the output file is written
WriteOutput ==
    /\ pc = "versions"
    /\ v >= spec.n_versions
    /\ output' = Some([attributes |-> spec.attributes,
                       n_tasks |-> spec.tasks_per_version,
                       profiles_per_task |-> spec.profiles_per_task,
                       n_versions |-> spec.n_versions,
                       total_profiles |-> Len(profiles),
                       versions |-> all_versions])
    /\ exit_code' = 0
    /\ pc' = "exit"
    /\ UNCHANGED <<spec, rng, profiles, min_diff, v, iter, choice_sets, available,
                   task, candidates, ci, best_sets, best_score, all_versions, run,
                   first_run, attempts>>
    /\ UNCHANGED <<analysisVars, callVars>>

\* the command is run again on the same specification file: a new process,
\* whose generator starts in an arbitrary state
Rerun ==
    /\ pc = "exit"
    /\ run = 1
    /\ run' = 2
    /\ first_run' = Some([exit_code |-> exit_code, output |-> output])
    /\ pc' = "generate_design"
    /\ rng' \in EntropyStates
    /\ profiles' = <<>>
    /\ min_diff' = 0
    /\ v' = 0
    /\ iter' = 0
    /\ choice_sets' = <<>>
    /\ available' = <<>>
    /\ task' = <<>>
    /\ candidates' = <<>>
    /\ ci' = 0
    /\ best_sets' = None
    /\ best_score' = Inf
    /\ all_versions' = <<>>
    /\ attempts' = <<>>
    /\ exit_code' = -1
    /\ output' = None
    /\ UNCHANGED <<spec, analysisVars, callVars>>

\* the command is run again on the specification with the base seed raised
\* to the seed of one of the later versions of the first run
RerunSeeded ==
    /\ pc = "exit"
    /\ run = 1
    /\ output # None
    /\ \E k \in 1..(spec.n_versions - 1) :
          spec' = [spec EXCEPT !.seed = spec.seed + k]
    /\ run' = 3
    /\ first_run' = Some([exit_code |-> exit_code, output |-> output,
                          seed |-> spec.seed])
    /\ pc' = "generate_design"
    /\ rng' \in EntropyStates
    /\ profiles' = <<>>
    /\ min_diff' = 0
    /\ v' = 0
    /\ iter' = 0
    /\ choice_sets' = <<>>
    /\ available' = <<>>
    /\ task' = <<>>
    /\ candidates' = <<>>
    /\ ci' = 0
    /\ best_sets' = None
    /\ best_score' = Inf
    /\ all_versions' = <<>>
    /\ attempts' = <<>>
    /\ exit_code' = -1
    /\ output' = None
    /\ UNCHANGED <<analysisVars, callVars>>

Next ==
    \/ GenerateDesignStart
    \/ VersionStart
    \/ AttemptStart
    \/ TaskStart
    \/ GreedyStep
    \/ GreedyEnd
    \/ RelaxFill
    \/ TaskDone
    \/ AttemptEnd
    \/ VersionEnd
    \/ WriteOutput
    \/ Rerun
    \/ RerunSeeded

Spec == Init /\ [][Next]_vars

\* ------------------------------------------------------------ scorer, called alone
MaxSlots == 4

\* the sequences of k profiles
TasksOfLen(profs, k) == [1..k -> Range(profs)]

\* the collections of non-empty tasks of at most n profile slots in all
RECURSIVE Collections(_, _)
Collections(profs, n) ==
    {<<>>} \cup
    UNION {{<<t>> \o c : t \in TasksOfLen(profs, k), c \in Collections(profs, n - k)} :
              k \in 1..n}

ScorerArgs ==
    UNION {[attributes : {a}, choice_sets : Collections(AllProfiles(a), MaxSlots)] :
              a \in {x \in AttributeSpecs : ProductLen(LevelLists(x)) <= MaxSlots}}

InitScorer ==
    /\ pc = "call"
    /\ fn_args \in {Some(x) : x \in ScorerArgs}
    /\ fn_result = None
    /\ spec = None
    /\ rng = 0
    /\ exit_code = -1
    /\ DesignIdle
    /\ AnalysisIdle

\* _level_balance_score(choice_sets, attributes)
CallScorer ==
    /\ pc = "call"
    /\ fn_result' = Some(LevelBalanceScore(Get(fn_args).choice_sets,
                                           Get(fn_args).attributes))
    /\ pc' = "returned"
    /\ UNCHANGED <<spec, exit_code, designVars, analysisVars, fn_args>>

NextScorer == CallScorer

SpecScorer == InitScorer /\ [][NextScorer]_vars

\* ------------------------------------------------------------ importance
RECURSIVE SumOver(_, _)
SumOver(f, S) ==
    IF S = {} THEN <<0, 1>>
    ELSE LET x == CHOOSE y \in S : TRUE
         IN RAdd(f[x], SumOver(f, S \ {x}))

MaxVal(f) == CHOOSE x \in {f[k] : k \in DOMAIN f} :
                 \A y \in {f[k] : k \in DOMAIN f} : ~RLess(x, y)
MinVal(f) == CHOOSE x \in {f[k] : k \in DOMAIN f} :
                 \A y \in {f[k] : k \in DOMAIN f} : ~RLess(y, x)

\* faulty variant: the range forgets the minimum
AttrRangeMaxOnly(attr_utils) ==
    IF DOMAIN attr_utils # {} THEN MaxVal(attr_utils) ELSE <<0, 1>>

\* lines 349-353: max(vals) - min(vals) if vals else 0.0
AttrRange(attr_utils) ==
    IF DOMAIN attr_utils # {}
    THEN RSub(MaxVal(attr_utils), MinVal(attr_utils))
    ELSE <<0, 1>>

\* _compute_importance(utilities)
ComputeImportance(utils) ==
    LET ranges == [nm \in DOMAIN utils |-> AttrRange(utils[nm])]
        total_range == SumOver(ranges, DOMAIN ranges)
    IN [nm \in DOMAIN ranges |->
           IF RLess(<<0, 1>>, total_range)
           THEN RMul(RDiv(ranges[nm], total_range), <<100, 1>>)
           ELSE <<0, 1>>]

MaxTableAttrs == 2
MaxUtil == 1

\* utility tables: 1..MaxTableAttrs attributes, each of no, one or two levels,
\* with whole utilities of magnitude at most MaxUtil
LevelTables ==
    UNION {[{LevelPool[i] : i \in 1..k} -> {<<u, 1>> : u \in (-MaxUtil)..MaxUtil}] :
              k \in 0..2}

UtilityTables ==
    UNION {[{AttrNames[i] : i \in 1..n} -> LevelTables] : n \in 1..MaxTableAttrs}

InitImportance ==
    /\ pc = "call"
    /\ fn_args \in {Some(x) : x \in UtilityTables}
    /\ fn_result = None
    /\ spec = None
    /\ rng = 0
    /\ exit_code = -1
    /\ DesignIdle
    /\ AnalysisIdle

\* _compute_importance(utilities)
CallImportance ==
    /\ pc = "call"
    /\ fn_result' = Some(ComputeImportance(Get(fn_args)))
    /\ pc' = "returned"
    /\ UNCHANGED <<spec, exit_code, designVars, analysisVars, fn_args>>

NextImportance == CallImportance

SpecImportance == InitImportance /\ [][NextImportance]_vars

\* ------------------------------------------------------------ utilities
\* math.log of a whole number 1..16, in thousandths
LnMilli == <<0, 693, 1099, 1386, 1609, 1792, 1946, 2079, 2197, 2303, 2398,
             2485, 2565, 2639, 2708, 2773>>

\* math.log(q) of a positive rational of numerator and denominator 1..16
Log(q) == Rat(LnMilli[q[1]] - LnMilli[q[2]], 1000)

\* rec["chosen_profile"].get(attr_name) is this level
ChoseLevel(rec, attr_name, level) ==
    /\ rec.chosen_profile # None
    /\ attr_name \in DOMAIN Get(rec.chosen_profile)
    /\ Get(rec.chosen_profile)[attr_name] = level

\* lines 305-311: level_chosen[attr_name][level] after the loop over records
RECURSIVE LevelChosen(_, _, _, _)
LevelChosen(recs, attr_name, level, i) ==
    IF i > Len(recs) THEN 0
    ELSE (IF ChoseLevel(recs[i], attr_name, level) THEN 1 ELSE 0)
         + LevelChosen(recs, attr_name, level, i + 1)

\* faulty variant: every record is counted, a null choice too
TotalChoicesAll(recs) == Len(recs)

\* line 316: sum(1 for r in records if r["chosen_profile"] is not None)
TotalChoices(recs) ==
    Len(SelectSeq(recs, LAMBDA r : r.chosen_profile # None))

\* lines 325-330: the utility of a level before the centering
LevelUtility(chosen_count, total_choices, n_levels) ==
    IF total_choices > 0 /\ chosen_count > 0
    THEN Log(RDiv(Rat(chosen_count, total_choices), Rat(1, n_levels)))
    ELSE <<-2, 1>>

\* lines 333-335: the mean is subtracted from every level
ZeroCenter(attr_utils) ==
    LET n == Cardinality(DOMAIN attr_utils)
        mean_util == IF n > 0 THEN RDiv(SumOver(attr_utils, DOMAIN attr_utils), <<n, 1>>)
                     ELSE <<0, 1>>
    IN [l \in DOMAIN attr_utils |-> RSub(attr_utils[l], mean_util)]

\* _compute_utilities(records, attributes)
ComputeUtilities(recs, attributes) ==
    LET total_choices == TotalChoices(recs)
    IN [nm \in Range(Names(attributes)) |->
           LET levels == attributes[CHOOSE i \in 1..Len(attributes) :
                                        attributes[i].name = nm].levels
           IN ZeroCenter([l \in Range(levels) |->
                  LevelUtility(LevelChosen(recs, nm, l, 1), total_choices, Len(levels))])]

\* ------------------------------------------------------------ analyze
MaxRecords == 2

\* rec.get("agent_traits", {}): a list of (trait, value) pairs
TraitKeys(rec) == {rec.agent_traits[i][1] : i \in 1..Len(rec.agent_traits)}

\* rec.get("agent_traits", {}).get(trait, "unknown")
TraitValue(rec, trait) ==
    IF trait \in TraitKeys(rec)
    THEN rec.agent_traits[CHOOSE i \in 1..Len(rec.agent_traits) :
                              rec.agent_traits[i][1] = trait][2]
    ELSE "unknown"

\* lines 414-420: what is reported for one group of records
GroupResult(group_records, attributes) ==
    [utilities |-> ComputeUtilities(group_records, attributes),
     importance |-> ComputeImportance(ComputeUtilities(group_records, attributes)),
     n_observations |-> Len(group_records)]

\* lines 402-421: segment_results
SegmentResults(recs, attributes) ==
    LET segment_traits == UNION {TraitKeys(recs[i]) : i \in 1..Len(recs)}
    IN [trait \in segment_traits |->
           [val \in {TraitValue(recs[i], trait) : i \in 1..Len(recs)} |->
               GroupResult(SelectSeq(recs, LAMBDA r : TraitValue(r, trait) = val),
                           attributes)]]

\* the profiles a record may hold: the enumerated ones and, of a profile of
\* several attributes, its part on the first attribute (a scenario column of
\* the results table is missing)
ChosenProfiles(attributes) ==
    Range(AllProfiles(attributes)) \cup
    (IF Len(attributes) > 1
     THEN {[nm \in {attributes[1].name} |-> lv] : lv \in Range(attributes[1].levels)}
     ELSE {})

TraitMaps == {<<>>, << <<"segment", "x">> >>, << <<"segment", "y">> >>}

ChoiceRecords(attributes) ==
    [task : {1},
     chosen_profile : {None} \cup {Some(p) : p \in ChosenProfiles(attributes)},
     agent_traits : TraitMaps]

AnalysisAttributes == {a \in AttributeSpecs : ProductLen(LevelLists(a)) <= MaxSlots}

InitAnalyze ==
    /\ pc = "analyze"
    /\ spec \in [attributes : AnalysisAttributes]
    /\ records \in UNION {[1..n -> ChoiceRecords(spec.attributes)] : n \in 0..MaxRecords}
    /\ utilities = None
    /\ importance = None
    /\ util_output = None
    /\ segment_results = None
    /\ files = {}
    /\ rng = 0
    /\ exit_code = -1
    /\ DesignIdle
    /\ CallIdle

\* faulty variant: records of a null choice do not count as records
NoRecordsChosen(recs) == SelectSeq(recs, LAMBDA r : r.chosen_profile # None) = <<>>

\* not records
NoRecords(recs) == recs = <<>>

\* lines 370-375: no records is fatal; otherwise the directory is made
AnalyzeStart ==
    /\ pc = "analyze"
    /\ IF NoRecords(records)
       THEN pc' = "exit" /\ exit_code' = 1 /\ UNCHANGED files
       ELSE pc' = "overall" /\ exit_code' = exit_code /\ files' = files \cup {"output_dir"}
    /\ UNCHANGED <<spec, records, utilities, importance, util_output,
                   segment_results, designVars, callVars>>

\* len(records)
Observations(recs) == Len(recs)

\* lines 378-399: overall utilities and importance, written out
AnalyzeOverall ==
    /\ pc = "overall"
    /\ utilities' = Some(ComputeUtilities(records, spec.attributes))
    /\ importance' = Some(ComputeImportance(Get(utilities')))
    /\ util_output' = Some([utilities |-> Get(utilities'),
                            importance |-> Get(importance'),
                            n_observations |-> Observations(records)])
    /\ files' = files \cup {"utilities.json", "utilities.csv"}
    /\ pc' = "segments"
    /\ UNCHANGED <<spec, exit_code, records, segment_results, designVars, callVars>>

\* lines 402-426: the segment analysis, written if there is any
AnalyzeSegments ==
    /\ pc = "segments"
    /\ segment_results' = Some(SegmentResults(records, spec.attributes))
    /\ files' = IF DOMAIN Get(segment_results') # {}
                THEN files \cup {"segment_analysis.json"} ELSE files
    /\ pc' = "report"
    /\ UNCHANGED <<spec, exit_code, records, utilities, importance, util_output,
                   designVars, callVars>>

\* lines 429-478: the report and the chart script
AnalyzeReport ==
    /\ pc = "report"
    /\ files' = files \cup {"conjoint_report.md", "generate_charts.py"}
    /\ exit_code' = 0
    /\ pc' = "exit"
    /\ UNCHANGED <<spec, records, utilities, importance, util_output,
                   segment_results, designVars, callVars>>

NextAnalyze ==
    \/ AnalyzeStart
    \/ AnalyzeOverall
    \/ AnalyzeSegments
    \/ AnalyzeReport

SpecAnalyze == InitAnalyze /\ [][NextAnalyze]_vars

\* ------------------------------------------------------------ market_sim
MaxSimProfiles == 2
MaxShift == 1

\* e ** -d in thousandths, for d = 0, 1, 2, ...; below a thousandth it is 0
ExpMilli == <<1000, 368, 135, 50, 18, 7, 2, 1>>

\* math.exp of a whole number that is not positive
Exp(q) ==
    IF -q[1] < Len(ExpMilli) THEN Rat(ExpMilli[-q[1] + 1], 1000) ELSE <<0, 1>>

\* attr_name in utilities and level in utilities[attr_name]
InTable(utils, attr_name, level) ==
    attr_name \in DOMAIN utils /\ level \in DOMAIN utils[attr_name]

\* faulty variant: the utility is assigned to the total, not added to it
RECURSIVE TotalUtilityAssigned(_, _, _)
TotalUtilityAssigned(utils, profile, attrs) ==
    IF attrs = {} THEN <<0, 1>>
    ELSE LET a == CHOOSE x \in attrs : TRUE
         IN IF InTable(utils, a, profile[a]) THEN utils[a][profile[a]]
            ELSE TotalUtilityAssigned(utils, profile, attrs \ {a})

\* lines 545-548: total after the loop over the items of the profile
RECURSIVE TotalUtility(_, _, _)
TotalUtility(utils, profile, attrs) ==
    IF attrs = {} THEN <<0, 1>>
    ELSE LET a == CHOOSE x \in attrs : TRUE
             rest == TotalUtility(utils, profile, attrs \ {a})
         IN IF InTable(utils, a, profile[a]) THEN RAdd(rest, utils[a][profile[a]])
            ELSE rest

\* lines 543-549: profile_utils
ProfileUtils(utils, profs) ==
    [i \in 1..Len(profs) |-> TotalUtility(utils, profs[i], DOMAIN profs[i])]

\* max(profile_utils) if profile_utils else 0
MaxOrZero(profile_utils) ==
    IF profile_utils # <<>> THEN MaxVal(profile_utils) ELSE <<0, 1>>

\* [math.exp(u - max_util) for u in profile_utils]
ExpUtils(profile_utils) ==
    [i \in 1..Len(profile_utils) |->
        Exp(RSub(profile_utils[i], MaxOrZero(profile_utils)))]

\* exp_u / sum_exp if sum_exp > 0 else 0
Share(exp_u, sum_exp) ==
    IF RLess(<<0, 1>>, sum_exp) THEN RDiv(exp_u, sum_exp) ELSE <<0, 1>>

\* f"{share:.1%}": the percentage to one decimal, in thousandths of the whole
Percent1(x) ==
    LET n == x[1] * 1000
        q == n \div x[2]
        r2 == 2 * (n % x[2])
        up == r2 > x[2] \/ (r2 = x[2] /\ q % 2 = 1)
    IN IF up THEN q + 1 ELSE q

\* lines 543-562: the rows of the table that is printed, each with the
\* numbers it is printed from
MarketSimRows(utils, profs) ==
    LET profile_utils == ProfileUtils(utils, profs)
        exp_utils == ExpUtils(profile_utils)
        sum_exp == SumOver(exp_utils, DOMAIN exp_utils)
    IN [i \in 1..Len(profs) |->
           [desc |-> profs[i],
            util |-> profile_utils[i],
            share |-> Share(exp_utils[i], sum_exp),
            printed |-> <<Round4(profile_utils[i]),
                          Percent1(Share(exp_utils[i], sum_exp))>>]]

\* the profiles of a profiles file: any of the first two attributes, each
\* with one of the first two levels
SimProfiles ==
    UNION {[A -> {LevelPool[1], LevelPool[2]}] : A \in SUBSET {AttrNames[1], AttrNames[2]}}

\* the utility tables of a utilities file: one or two attributes, each of
\* no, one or two levels, with whole utilities from 0 to MaxUtil
SimLevelTables ==
    UNION {[{LevelPool[i] : i \in 1..k} -> {<<u, 1>> : u \in 0..MaxUtil}] : k \in 0..2}

SimTables ==
    [{AttrNames[1]} -> SimLevelTables] \cup [{AttrNames[1], AttrNames[2]} -> SimLevelTables]

SimArgs ==
    [utilities : SimTables,
     profiles : UNION {[1..n -> SimProfiles] : n \in 0..MaxSimProfiles}]

\* the table with c added to every level utility
ShiftTable(utils, c) ==
    [a \in DOMAIN utils |-> [l \in DOMAIN utils[a] |-> RAdd(utils[a][l], <<c, 1>>)]]

InitMarketSim ==
    /\ pc = "market_sim"
    /\ fn_args \in {Some(x) : x \in SimArgs}
    /\ fn_result = None
    /\ spec = None
    /\ rng = 0
    /\ exit_code = -1
    /\ DesignIdle
    /\ AnalysisIdle

\* market_sim(args)
MarketSim ==
    /\ pc = "market_sim"
    /\ fn_result' = Some(MarketSimRows(Get(fn_args).utilities, Get(fn_args).profiles))
    /\ exit_code' = 0
    /\ pc' = "exit"
    /\ UNCHANGED <<spec, designVars, analysisVars, fn_args>>

\* the command is run again on the same profiles, with a utilities file in
\* which a constant has been added to every utility
RerunShifted ==
    /\ pc = "exit"
    /\ run = 1
    /\ \E c \in ((-MaxShift)..MaxShift) \ {0} :
          /\ first_run' = Some([args |-> Get(fn_args), rows |-> Get(fn_result),
                                shift |-> c])
          /\ fn_args' = Some([utilities |-> ShiftTable(Get(fn_args).utilities, c),
                              profiles |-> Get(fn_args).profiles])
    /\ fn_result' = None
    /\ run' = 2
    /\ exit_code' = -1
    /\ pc' = "market_sim"
    /\ UNCHANGED <<spec, rng, profiles, min_diff, v, iter, choice_sets, available,
                   task, candidates, ci, best_sets, best_score, all_versions,
                   output, attempts, analysisVars>>

NextMarketSim ==
    \/ MarketSim
    \/ RerunShifted

SpecMarketSim == InitMarketSim /\ [][NextMarketSim]_vars

\* ------------------------------------------------------------ claims
\* the tasks of the output file, and the tasks the search holds
OutputTasks ==
    IF output = None THEN {}
    ELSE UNION {Range(Get(output).versions[k].choice_sets) :
                    k \in 1..Len(Get(output).versions)}

SearchTasks ==
    Range(choice_sets) \cup (IF best_sets = None THEN {} ELSE Range(Get(best_sets)))

PairwiseDistinct(tsk) ==
    \A i, j \in 1..Len(tsk) : i # j => tsk[i] # tsk[j]

\* two members of the task differ in fewer than md attributes
HasClosePair(tsk, md) ==
    \E i, j \in 1..Len(tsk) : i # j /\ ProfileDiffCount(tsk[i], tsk[j]) < md

\* C1: in every choice task of every version that generate-design writes,
\* the member profiles are pairwise distinct.
C1_TasksPairwiseDistinct ==
    \A tsk \in OutputTasks : PairwiseDistinct(tsk)

\* C2: an accepted specification yields n_versions versions numbered
\* 1..n_versions, each of tasks_per_version tasks, each task of
\* profiles_per_task profiles, all of them enumerated profiles.
C2_OutputShape ==
    (pc = "exit" /\ ProductLen(LevelLists(spec.attributes)) >= spec.profiles_per_task)
    => /\ output # None
       /\ Len(Get(output).versions) = spec.n_versions
       /\ \A k \in 1..Len(Get(output).versions) :
            /\ Get(output).versions[k].version = k
            /\ Len(Get(output).versions[k].choice_sets) = spec.tasks_per_version
            /\ \A tsk \in Range(Get(output).versions[k].choice_sets) :
                 /\ Len(tsk) = spec.profiles_per_task
                 /\ Range(tsk) \subseteq Range(AllProfiles(spec.attributes))

\* a set of per_task enumerated profiles that contains `first` and whose
\* members pairwise differ in at least md attributes
ConstrainedSetExists(profs, first, per_task, md) ==
    \E S \in SUBSET Range(profs) :
        /\ first \in S
        /\ Cardinality(S) = per_task
        /\ \A p, q \in S : p # q => ProfileDiffCount(p, q) >= md

\* C3 as stated: a task holds two profiles differing in fewer than min_diff
\* attributes only if no set of profiles_per_task profiles containing the
\* task's first profile satisfies the constraint.
C3_CloseOnlyIfImpossible ==
    \A tsk \in SearchTasks :
        HasClosePair(tsk, min_diff)
        => ~ConstrainedSetExists(profiles, tsk[1], spec.profiles_per_task, min_diff)

\* the first k members of the task pairwise satisfy the constraint and no
\* enumerated profile outside them can join them under it
StuckPrefix(tsk, k, profs, md) ==
    /\ \A i, j \in 1..k : i # j => ProfileDiffCount(tsk[i], tsk[j]) >= md
    /\ \A p \in Range(profs) :
           p \notin {tsk[i] : i \in 1..k}
           => \E i \in 1..k : ProfileDiffCount(p, tsk[i]) < md

TwoByTwo(sp) ==
    /\ Len(sp.attributes) = 2
    /\ \A i \in 1..2 : sp.attributes[i].levels = <<"a", "b">>
    /\ sp.profiles_per_task = 2
    /\ sp.min_attribute_diff = 2

\* C3 amended: a task holds two profiles differing in fewer than min_diff
\* attributes only if the greedy pass got stuck: the profiles it had chosen
\* are fewer than profiles_per_task, satisfy the constraint pairwise, and no
\* other enumerated profile satisfies it against all of them.  With two
\* attributes of two levels, two profiles per task and min_diff 2, the two
\* profiles of every written task differ in both attributes.
C3_CloseOnlyIfGreedyStuck ==
    /\ \A tsk \in SearchTasks :
          HasClosePair(tsk, min_diff)
          => \E k \in 1..(spec.profiles_per_task - 1) :
                 k <= Len(tsk) /\ StuckPrefix(tsk, k, profiles, min_diff)
    /\ TwoByTwo(spec)
       => \A tsk \in OutputTasks :
              Len(tsk) = 2 /\ ProfileDiffCount(tsk[1], tsk[2]) = 2

\* C3 witness: a written task holds a close pair although a set satisfying
\* the constraint around one of its members exists
C3_Witness ==
    /\ pc = "exit"
    /\ \E tsk \in OutputTasks :
          /\ Len(tsk) = spec.profiles_per_task
          /\ HasClosePair(tsk, min_diff)
          /\ \E i \in 1..Len(tsk) :
                ConstrainedSetExists(profiles, tsk[i], spec.profiles_per_task, min_diff)

\* C4: two runs on the same specification and seed write the same output
\* and end with the same status.
C4_Deterministic ==
    (run = 2 /\ pc = "exit")
    => (exit_code = Get(first_run).exit_code /\ output = Get(first_run).output)

\* C4 witness: a second run has written versions of several tasks
C4_Witness ==
    /\ run = 2
    /\ pc = "exit"
    /\ output # None
    /\ \E k \in 1..Len(Get(output).versions) :
          /\ Len(Get(output).versions[k].choice_sets) >= 2
          /\ \A tsk \in Range(Get(output).versions[k].choice_sets) : Len(tsk) >= 2

\* no step of the search has run
SearchUntouched ==
    /\ v = 0 /\ iter = 0 /\ choice_sets = <<>> /\ available = <<>>
    /\ task = <<>> /\ candidates = <<>> /\ best_sets = None
    /\ all_versions = <<>>

\* C5: with fewer enumerated profiles than profiles_per_task the command
\* ends with status 1, before any search and without an output file;
\* otherwise this error is never raised.
C5_InsufficientIsFatal ==
    LET few == ProductLen(LevelLists(spec.attributes)) < spec.profiles_per_task
    IN /\ (few /\ pc # "generate_design")
          => (pc = "exit" /\ exit_code = 1 /\ output = None /\ SearchUntouched)
       /\ ~few => exit_code # 1

\* C5 witness: the error has been raised
C5_Witness ==
    /\ pc = "exit"
    /\ exit_code = 1
    /\ Len(profiles) > 0
    /\ Len(profiles) < spec.profiles_per_task

\* the level of attribute j in the profile of 0-based index k of the nested
\* iteration, the last attribute varying fastest
NestedLevel(lists, j, k) ==
    lists[j][((k \div ProductLen(SubSeq(lists, j + 1, Len(lists)))) % Len(lists[j])) + 1]

\* C6: the enumerator returns the product of the level counts many profiles,
\* each assigning one level of its list to every attribute and to nothing
\* else, in nested-iteration order.
C6_EnumeratorIsProduct ==
    pc # "generate_design"
    => LET lists == LevelLists(spec.attributes)
           names == Names(spec.attributes)
       IN /\ Len(profiles) = ProductLen(lists)
          /\ \A k \in 1..Len(profiles) :
               /\ DOMAIN profiles[k] = Range(names)
               /\ \A j \in 1..Len(names) :
                    profiles[k][names[j]] = NestedLevel(lists, j, k - 1)

\* C6 witness: three attributes, two of them of several levels, enumerated
C6_Witness ==
    /\ pc # "generate_design"
    /\ Len(spec.attributes) = 3
    /\ Len(profiles) >= 6
    /\ Len(spec.attributes[1].levels) # Len(spec.attributes[3].levels)

\* the number of profile slots of the collection that show the level
RECURSIVE Occurrences(_, _, _)
Occurrences(sets, attr_name, level) ==
    IF sets = <<>> THEN 0
    ELSE Len(SelectSeq(Head(sets), LAMBDA p : p[attr_name] = level))
         + Occurrences(Tail(sets), attr_name, level)

RECURSIVE TotalSlots(_)
TotalSlots(sets) ==
    IF sets = <<>> THEN 0 ELSE Len(Head(sets)) + TotalSlots(Tail(sets))

\* every level of every attribute occurs total slots / number of levels times
Uniform(sets, attributes) ==
    \A i \in 1..Len(attributes) :
        \A l \in Range(attributes[i].levels) :
            Len(attributes[i].levels) * Occurrences(sets, attributes[i].name, l)
                = TotalSlots(sets)

\* C7: the balance score is never negative, and it is 0 exactly when every
\* level of every attribute occurs total slots / number of levels times.
C7_ScoreZeroIffUniform ==
    pc = "returned"
    => LET a == Get(fn_args)
           score == Get(fn_result)
       IN /\ score[2] > 0
          /\ score[1] >= 0
          /\ (score[1] = 0) <=> Uniform(a.choice_sets, a.attributes)

\* C7 witness: a uniform design of two attributes of two levels scored 0
C7_Witness ==
    /\ pc = "returned"
    /\ Get(fn_result) = <<0, 1>>
    /\ TotalSlots(Get(fn_args).choice_sets) = 4
    /\ Len(Get(fn_args).attributes) = 2
    /\ \A i \in 1..2 : Get(fn_args).attributes[i].levels = <<"a", "b">>

\* the reference of the utility estimator
RefChosenCount(recs, attr_name, level) ==
    Cardinality({i \in 1..Len(recs) : ChoseLevel(recs[i], attr_name, level)})

RefTotalChoices(recs) ==
    Cardinality({i \in 1..Len(recs) : recs[i].chosen_profile # None})

\* -2.0 for a level never chosen, ln((count / total) / (1 / levels)) otherwise
RefPreCentering(recs, attr_name, level, n_levels) ==
    IF RefChosenCount(recs, attr_name, level) = 0 THEN <<-2, 1>>
    ELSE Log(Rat(RefChosenCount(recs, attr_name, level) * n_levels,
                 RefTotalChoices(recs)))

RefUtilities(recs, attributes) ==
    [nm \in {attributes[i].name : i \in 1..Len(attributes)} |->
        LET levels == attributes[CHOOSE i \in 1..Len(attributes) :
                                     attributes[i].name = nm].levels
            pre == [l \in Range(levels) |->
                        RefPreCentering(recs, nm, l, Len(levels))]
            mean == RDiv(SumOver(pre, Range(levels)), <<Cardinality(Range(levels)), 1>>)
        IN [l \in Range(levels) |-> RSub(pre[l], mean)]]

\* C8: the estimator's table equals the reference: per level -2.0 if never
\* chosen and the logarithm of its share against the uniform share otherwise,
\* less the mean over the attribute's levels; its keys are the
\* specification's attributes and levels.
C8_UtilitiesEqualReference ==
    pc \in {"segments", "report", "exit"} /\ utilities # None
    => Get(utilities) = RefUtilities(records, spec.attributes)

\* C8 witness: a null choice among the records, a level chosen and a level
\* of the same attribute never chosen
C8_Witness ==
    /\ pc = "exit"
    /\ utilities # None
    /\ \E i \in 1..Len(records) : records[i].chosen_profile = None
    /\ \E k \in 1..Len(spec.attributes) :
          \E l1, l2 \in Range(spec.attributes[k].levels) :
              /\ RefChosenCount(records, spec.attributes[k].name, l1) > 0
              /\ RefChosenCount(records, spec.attributes[k].name, l2) = 0

\* the records whose choice is not null
NonNull(recs) == SelectSeq(recs, LAMBDA r : r.chosen_profile # None)

\* C9: what analyze reports (utilities, importances, n_observations, overall
\* and per segment group) is what it reports for the same records with the
\* null choices removed, here whenever some choice is not null.
C9_NullChoicesExcluded ==
    (pc = "exit" /\ exit_code = 0 /\ NonNull(records) # <<>>)
    => /\ Get(util_output) =
             [utilities |-> ComputeUtilities(NonNull(records), spec.attributes),
              importance |-> ComputeImportance(
                                ComputeUtilities(NonNull(records), spec.attributes)),
              n_observations |-> Observations(NonNull(records))]
       /\ Get(segment_results) = SegmentResults(NonNull(records), spec.attributes)

\* the percentages of the table add up to 100
SumsTo100(imp) == SumOver(imp, DOMAIN imp) = <<100, 1>>

\* some attribute of the table has two levels of different utility
SomeRange(utils) ==
    \E nm \in DOMAIN utils : \E l1, l2 \in DOMAIN utils[nm] :
        utils[nm][l1] # utils[nm][l2]

\* C10: one percentage per attribute, each a number in [0, 100]; they add up
\* to 100 when some attribute has a nonzero utility range and are all 0 when
\* none has.
C10_ImportanceSumsTo100 ==
    pc = "returned"
    => LET utils == Get(fn_args)
           imp == Get(fn_result)
       IN /\ DOMAIN imp = DOMAIN utils
          /\ \A nm \in DOMAIN imp :
                /\ imp[nm][2] > 0
                /\ ~RLess(imp[nm], <<0, 1>>)
                /\ ~RLess(<<100, 1>>, imp[nm])
          /\ IF SomeRange(utils) THEN SumsTo100(imp)
             ELSE \A nm \in DOMAIN imp : imp[nm] = <<0, 1>>

\* C10 witness: two attributes of different nonzero ranges
C10_Witness ==
    /\ pc = "returned"
    /\ Cardinality(DOMAIN Get(fn_args)) = 2
    /\ \E n1, n2 \in DOMAIN Get(fn_result) :
          /\ RLess(<<0, 1>>, Get(fn_result)[n1])
          /\ RLess(Get(fn_result)[n1], Get(fn_result)[n2])


\* the number of items of the profile that the table holds a utility for
Matches(utils, profile) ==
    Cardinality({a \in DOMAIN profile : InTable(utils, a, profile[a])})

\* C11 as stated: simulating with the table in which a constant has been
\* added to every level utility yields the same share for every profile.
C11_SharesShiftInvariant ==
    (run = 2 /\ pc = "exit")
    => \A i \in 1..Len(Get(fn_result)) :
           Get(fn_result)[i].share = Get(first_run).rows[i].share

\* C11 amended: adding a constant c to every level utility adds c times the
\* number of its items found in the table to every profile's total utility
\* (items absent from the table contributing 0), and the shares are the same
\* when this number is the same for all profiles of the list.
C11_SharesInvariantIfEqualMatches ==
    (run = 2 /\ pc = "exit")
    => LET first == Get(first_run)
           rows == Get(fn_result)
           m == [i \in 1..Len(rows) |-> Matches(first.args.utilities, rows[i].desc)]
       IN /\ Len(rows) = Len(first.rows)
          /\ \A i \in 1..Len(rows) :
                rows[i].util = RAdd(first.rows[i].util, <<first.shift * m[i], 1>>)
          /\ (\A i, j \in 1..Len(rows) : m[i] = m[j])
             => \A i \in 1..Len(rows) :
                    /\ rows[i].share = first.rows[i].share
                    /\ rows[i].printed[2] = first.rows[i].printed[2]

\* C11 witness: two profiles of two items in the table each and of different
\* shares, simulated again with shifted utilities
C11_Witness ==
    /\ run = 2
    /\ pc = "exit"
    /\ Len(Get(fn_result)) = 2
    /\ \A i \in 1..2 : Matches(Get(first_run).args.utilities, Get(fn_result)[i].desc) = 2
    /\ RLess(Get(fn_result)[1].share, Get(fn_result)[2].share)
    /\ Get(fn_result)[1].share = Get(first_run).rows[1].share


\* C12: when no choice record was parsed, analyze ends with a non-zero
\* status, and never makes the output directory or writes a file; when some
\* record was parsed, this error is not raised and the utilities output is
\* written.
C12_NoRecordsIsFatal ==
    /\ (records = <<>> /\ pc # "analyze")
       => /\ pc = "exit"
          /\ exit_code > 0
          /\ files = {}
          /\ utilities = None /\ importance = None
          /\ util_output = None /\ segment_results = None
    /\ records # <<>>
       => /\ exit_code \in {-1, 0}
          /\ pc \in {"segments", "report", "exit"}
             => /\ util_output # None
                /\ {"output_dir", "utilities.json"} \subseteq files
          /\ pc = "exit" => exit_code = 0

\* C12 witness: the error has been raised
C12_Witness ==
    /\ pc = "exit"
    /\ records = <<>>
    /\ exit_code = 1
    /\ files = {}


\* C13: while the greedy pass builds a task, and until the relaxation step,
\* every two profiles of the task differ in at least min_diff attributes; a
\* task that is full after the greedy pass is recorded as it is, all its pairs
\* differing in at least min_diff attributes.
C13_GreedyKeepsMinDiff ==
    [][/\ pc' \in {"greedy", "relax"} => ~HasClosePair(task', min_diff')
       /\ (pc = "relax" /\ Len(task) >= spec.profiles_per_task)
          => /\ choice_sets' = Append(choice_sets, task)
             /\ ~HasClosePair(task, min_diff)]_vars

\* C13 witness: a task of three profiles is full after a greedy pass that
\* refused a candidate under a min_diff of 2 or more
C13_Witness ==
    /\ pc = "relax"
    /\ min_diff >= 2
    /\ spec.profiles_per_task >= 3
    /\ Len(task) = spec.profiles_per_task
    /\ ci > Len(task)


\* the least score among the attempts, and the first attempt that has it
MinScore(att) ==
    CHOOSE x \in {att[i].score : i \in 1..Len(att)} :
        \A j \in 1..Len(att) : ~RLess(att[j].score, x)

EarliestMin(att) ==
    att[CHOOSE i \in 1..Len(att) :
            /\ att[i].score = MinScore(att)
            /\ \A j \in 1..(i - 1) : att[j].score # MinScore(att)]

\* C14: after one attempt or more, the score the search holds is the least
\* of the balance scores of the attempts made, no attempt scores below it,
\* the choice sets it holds are those of the first attempt with that score,
\* and the score is the balance score of these choice sets.
C14_KeepsEarliestMinimum ==
    (pc = "attempts" /\ iter >= 1)
    => /\ Len(attempts) = iter
       /\ best_score = MinScore(attempts)
       /\ \A j \in 1..Len(attempts) : ~RLess(attempts[j].score, best_score)
       /\ best_sets = Some(EarliestMin(attempts).choice_sets)
       /\ best_score = LevelBalanceScore(Get(best_sets), spec.attributes)

\* C14 witness: the search returns after attempts of which two tie at the
\* least score with different choice sets
C14_Witness ==
    /\ pc = "attempts"
    /\ iter >= MaxIterations
    /\ \E i, j \in 1..Len(attempts) :
          /\ i < j
          /\ attempts[i].score = best_score
          /\ attempts[j].score = best_score
          /\ attempts[i].choice_sets # attempts[j].choice_sets


\* the first profiles of the tasks of the attempt under way, in task order
FirstProfiles ==
    [i \in 1..Len(choice_sets) |-> choice_sets[i][1]]
    \o (IF pc \in {"greedy", "relax"} THEN <<task[1]>> ELSE <<>>)

\* C15: within an attempt, the first profiles of the tasks of one round of
\* the pool (tasks k*P+1 .. (k+1)*P, P the number of enumerated profiles)
\* are pairwise distinct, and the pool holds what the round has not drawn
\* yet: nothing but the drawing of a first profile removes from it.
C15_FirstProfilesWithoutReplacement ==
    pc \in {"tasks", "greedy", "relax"}
    => LET n == Len(FirstProfiles)
           P == Len(profiles)
       IN /\ \A i, j \in 1..n :
                (i < j /\ (i - 1) \div P = (j - 1) \div P)
                => FirstProfiles[i] # FirstProfiles[j]
          /\ Len(available) = (IF n = 0 THEN P ELSE P - (((n - 1) % P) + 1))


\* C16: the choice sets, in presentation order, and the balance score of
\* version index k under base seed s are those of version index 0 under base
\* seed s + k, for the same attributes, counts and min_diff.
C16_VersionDependsOnSeedPlusIndex ==
    (run = 3 /\ pc = "exit")
    => LET k == spec.seed - Get(first_run).seed
           first == Get(first_run).output
       IN /\ output # None
          /\ Get(output).versions[1].choice_sets
                = Get(first).versions[k + 1].choice_sets
          /\ Get(output).versions[1].balance_score
                = Get(first).versions[k + 1].balance_score

\* C16 witness: the first run wrote two versions of several tasks that
\* differ, and the run with the later base seed has ended
C16_Witness ==
    /\ run = 3
    /\ pc = "exit"
    /\ output # None
    /\ spec.tasks_per_version >= 2
    /\ spec.profiles_per_task >= 2
    /\ Get(Get(first_run).output).versions[1].choice_sets
          # Get(Get(first_run).output).versions[2].choice_sets

=============================================================================
